---- MODULE Spec2Model ----
(***************************************************************************)
(* rclone-bench: the model-loading benchmark run (bench/model_loading.py), *)
(* the helpers it uses (bench/bench_utils.py) and the large-object         *)
(* populator (scripts/model_data_prefill.py), as a state machine.          *)
(*                                                                         *)
(* Text is modelled as a sequence of one-character strings, so that        *)
(* int(), str.lower() and path building are computed and not assumed.      *)
(***************************************************************************)
EXTENDS Integers, Sequences, FiniteSets

VARIABLES
    env,          \* os.environ: override name -> [set, val]
    binding,      \* what main's unqualified names resolve to
    pc,           \* main's position
    options,      \* the RCloneOptions of the run ([set |-> FALSE] before line 67)
    exc,          \* the exception propagating in main ("none": none)
    bodyError,    \* the exception the try body (lines 72-89) ended with
    exitError,    \* the exception main ended with
    store,        \* the storage provider: bucket name -> set of object keys
    bucket,       \* main's local `bucket` (<<>> before line 68 returns)
    calls,        \* the manage_bucket calls made: [action, name, raised, existed]
    localFiles,   \* files lying in the local directory MOUNT_PATH
    workers,      \* populate_bucket's `workers` argument
    task,         \* the pool's futures: task index -> queued/running/done/failed
    raisedBy,     \* the future whose result() raised in line 33 (0: none)
    mountProc,    \* main's local `mount_proc`: "unbound" or bound to a process
    mount,        \* the rclone mount: "none", "starting", "up", "down"
    case,         \* index into MODEL_SIZES_GB of the case the loop is at
    timeout,      \* run_benchmark's local `timeout`
    polls,        \* os.path.exists calls made by the case that is running
    result,       \* main's local `result` ([set |-> FALSE]: None)
    outcome,      \* per executed case, in order: <<size, "completed"|"failed">>
    logFile,      \* LOG_FILE: the records appended
    steps,        \* the cleanup steps attempted, in order
    entry,        \* the script that runs: "main" (bench.model_loading),
                  \* "prefill" (scripts.model_data_prefill) or "dataset"
                  \* (scripts.dataset_prefill)
    reply,        \* what the stats request of the case last read met
                  \* ("none": get_rclone_stats was not called)
    ds            \* scripts.dataset_prefill: its imported constants, its loop
                  \* position, data_buffer and the objects uploaded

vars == <<env, binding, pc, options, exc, bodyError, exitError, store, bucket,
          calls, localFiles, workers, task, raisedBy, mountProc, mount, case,
          timeout, polls, result, outcome, logFile, steps, entry, reply, ds>>

----------------------------------------------------------------------------
(* Bounds of the model *)

\* how many of the sizes of MODEL_SIZES_GB the model runs with
NumSizes == 3
\* how many of the prefixes of PREFIXES the model runs with
NumPrefixes == 2
\* how many manage_bucket calls a direct caller makes
MaxCalls == 4

----------------------------------------------------------------------------
(* Text *)

Digits == {"0", "1", "2", "3", "4", "5", "6", "7", "8", "9"}

DigitVal(c) ==
    CASE c = "0" -> 0 [] c = "1" -> 1 [] c = "2" -> 2 [] c = "3" -> 3
      [] c = "4" -> 4 [] c = "5" -> 5 [] c = "6" -> 6 [] c = "7" -> 7
      [] c = "8" -> 8 [] c = "9" -> 9

\* str.lower on the letters the model's inputs use
LowerChar(c) ==
    CASE c = "Y" -> "y" [] c = "E" -> "e" [] c = "S" -> "s" [] c = "T" -> "t"
      [] c = "R" -> "r" [] c = "U" -> "u" [] c = "N" -> "n" [] c = "O" -> "o"
      [] OTHER -> c

Lower(s) == [i \in 1..Len(s) |-> LowerChar(s[i])]

RECURSIVE LStrip(_)
LStrip(s) == IF s # <<>> /\ s[1] = " " THEN LStrip(Tail(s)) ELSE s

RECURSIVE RStrip(_)
RStrip(s) ==
    IF s # <<>> /\ s[Len(s)] = " " THEN RStrip(SubSeq(s, 1, Len(s) - 1)) ELSE s

RECURSIVE DigitsVal(_)
DigitsVal(s) ==
    IF s = <<>> THEN 0
    ELSE 10 * DigitsVal(SubSeq(s, 1, Len(s) - 1)) + DigitVal(s[Len(s)])

\* str(n) for n >= 0
RECURSIVE NatStr(_)
NatStr(n) ==
    LET d == CHOOSE c \in Digits : DigitVal(c) = n % 10
    IN  IF n < 10 THEN <<d>> ELSE NatStr(n \div 10) \o <<d>>

\* int(s) for a str: surrounding blanks dropped, an optional sign, then one or
\* more decimal digits; anything else raises ValueError
PyInt(s) ==
    LET t    == RStrip(LStrip(s))
        sgn  == t # <<>> /\ t[1] \in {"+", "-"}
        body == IF sgn THEN Tail(t) ELSE t
        ok   == body # <<>> /\ \A i \in 1..Len(body) : body[i] \in Digits
    IN  IF ~ok THEN [ok |-> FALSE, val |-> 0]
        ELSE [ok |-> TRUE,
              val |-> IF sgn /\ t[1] = "-" THEN 0 - DigitsVal(body)
                      ELSE DigitsVal(body)]

----------------------------------------------------------------------------
(* bench_utils.RCloneOptions *)

Absent == [set |-> FALSE, val |-> <<>>]
Given(s) == [set |-> TRUE, val |-> s]

IntFields == {"transfers", "multi_thread_streams", "vfs_read_chunk_streams"}
StrFields == {"buffer_size", "vfs_cache_max_size", "vfs_cache_max_age",
              "vfs_write_back", "vfs_read_ahead", "vfs_read_chunk_size"}
BoolFields == {"fast_list"}
Fields == IntFields \cup StrFields \cup BoolFields

\* the dataclass defaults
DefaultInt(f) ==
    CASE f = "transfers"              -> 4
      [] f = "multi_thread_streams"   -> 4
      [] f = "vfs_read_chunk_streams" -> 4
DefaultStr(f) ==
    CASE f = "buffer_size"         -> <<"1", "6", "M">>
      [] f = "vfs_cache_max_size"  -> <<"1", "0", "G">>
      [] f = "vfs_cache_max_age"   -> <<"1", "h">>
      [] f = "vfs_write_back"      -> <<"5", "s">>
      [] f = "vfs_read_ahead"      -> <<"1", "2", "8", "M">>
      [] f = "vfs_read_chunk_size" -> <<"1", "2", "8", "M">>
DefaultBool == FALSE

\* os.environ.get(key, default) handed to int(): the default is already an int
EnvInt(e, f) ==
    IF e[f].set THEN PyInt(e[f].val) ELSE [ok |-> TRUE, val |-> DefaultInt(f)]

\* from_env's inner get_bool
get_bool(e, f, default) ==
    LET val == IF e[f].set THEN Lower(e[f].val) ELSE <<>>
    IN  IF val \in {<<"1">>, <<"t", "r", "u", "e">>, <<"y", "e", "s">>} THEN TRUE
        ELSE IF val \in {<<"0">>, <<"f", "a", "l", "s", "e">>, <<"n", "o">>}
             THEN FALSE
        ELSE default

\* RCloneOptions.from_env: [raised, opts]
from_env(e) ==
    IF \E f \in IntFields : ~EnvInt(e, f).ok
    THEN [raised |-> "ValueError", opts |-> [set |-> FALSE]]
    ELSE [raised |-> "none",
          opts |-> [set |-> TRUE,
                    int |-> [f \in IntFields |-> EnvInt(e, f).val],
                    str |-> [f \in StrFields |->
                                IF e[f].set THEN e[f].val ELSE DefaultStr(f)],
                    fast_list |-> get_bool(e, "fast_list", DefaultBool)]]

----------------------------------------------------------------------------
(* bench/model_loading.py: configuration *)

AllSizes == <<10, 50, 100, 250, 500>>
MODEL_SIZES_GB == SubSeq(AllSizes, 1, NumSizes)

AllPrefixes ==
    << <<"m", "o", "d", "e", "l", "/", "b", "1">>,
       <<"m", "o", "d", "e", "l", "/", "b", "2">>,
       <<"m", "o", "d", "e", "l", "/", "b", "3">>,
       <<"m", "o", "d", "e", "l", "/", "b", "4">> >>
PREFIXES == SubSeq(AllPrefixes, 1, NumPrefixes)

\* FILE_NAME_TEMPLATE.format(size)
FILE_NAME_TEMPLATE(size) ==
    <<"m", "o", "d", "e", "l", "_">> \o NatStr(size) \o <<"g", "b", ".", "b", "i", "n">>

LOG_FILE == "model_loading_results.jsonl"

\* the names main uses without importing them (lines 68, 73, 76, 89, 97) are
\* unbound in the module as written; a namespace that binds them binds them to
\* the repository's functions of those names.  "adapted" differs from "repo" in
\* one thing: populate_bucket's second positional argument is not handed on as
\* `workers`, so the pool has the default width.
Bindings == {"unbound", "repo", "adapted"}

----------------------------------------------------------------------------
(* bench_utils.manage_bucket *)

\* rclone mkdir: exit code 0 iff the provider accepts; an existing bucket stays
RcloneMkdir(st, name, ok) ==
    IF ~ok THEN [code |-> 1, st |-> st]
    ELSE [code |-> 0,
          st |-> IF name \in DOMAIN st THEN st
                 ELSE [b \in DOMAIN st \cup {name} |->
                          IF b \in DOMAIN st THEN st[b] ELSE {}]]

\* rclone purge: "directory not found" (exit code 3) for a bucket that is not
\* there, else the bucket and its objects are removed if the provider accepts
RclonePurge(st, name, ok) ==
    IF name \notin DOMAIN st THEN [code |-> 3, st |-> st]
    ELSE IF ~ok THEN [code |-> 1, st |-> st]
    ELSE [code |-> 0, st |-> [b \in DOMAIN st \ {name} |-> st[b]]]

\* subprocess.run(..., check=True): CalledProcessError on a non-zero exit code
CheckTrue(code) == IF code # 0 THEN "CalledProcessError" ELSE "none"

\* subprocess.run(..., check=False): the exit code is not looked at
CheckFalse(code) == "none"

\* manage_bucket(action, bucket_name): [raised, ret, st]; uuid is the name that
\* uuid4 draws, ok whether the provider accepts the request
manage_bucket(action, bucket_name, st, uuid, ok) ==
    IF action = "create"
    THEN LET r == RcloneMkdir(st, uuid, ok)
         IN  [raised |-> CheckTrue(r.code), ret |-> uuid, st |-> r.st]
    ELSE IF action = "delete"
    THEN LET r == RclonePurge(st, bucket_name, ok)
         IN  [raised |-> CheckTrue(r.code), ret |-> 0, st |-> r.st]
    ELSE [raised |-> "none", ret |-> 0, st |-> st]

\* bucket names: f"rclone-bench-{uuid.uuid4().hex[:8]}" is a name not handed out
\* before; the k-th name drawn is modelled as k, and 0 is no name
Names == 1..MaxCalls
FreshName(cs) == 1 + Cardinality({i \in 1..Len(cs) : cs[i].action = "create"})

\* one manage_bucket call, as the calls history keeps it
Call(action, name, raised, st) ==
    [action |-> action, name |-> name, raised |-> raised,
     existed |-> name \in DOMAIN st]

----------------------------------------------------------------------------
(* bench_utils.get_rclone_stats, bench_utils.log_to_jsonl *)

\* what the POST to the rc port can meet: a JSON body, a refused connection
\* (requests.post raises), a body that is not JSON (r.json() raises)
Replies == {"json", "refused", "garbage"}

\* lines 119-121 without the try: the exception of the request or of the
\* decoding reaches the caller
get_rclone_stats_unguarded(r) ==
    [raised |-> CASE r = "refused" -> "ConnectionError"
                  [] r = "garbage" -> "JSONDecodeError"
                  [] OTHER -> "none",
     ret |-> IF r = "json" THEN {"vfs"} ELSE {}]

\* get_rclone_stats: [raised, ret], ret the decoded reply, or {} when the
\* request or the decoding raises (the bare except of lines 122-123)
get_rclone_stats(r) ==
    [raised |-> "none", ret |-> IF r = "json" THEN {"vfs"} ELSE {}]

\* log_to_jsonl(filename, data) called with the positional arguments args:
\* [raised, file], file being the content of LOG_FILE
log_to_jsonl(args, file) ==
    IF Len(args) # 2 THEN [raised |-> "TypeError", file |-> file]
    ELSE IF args[1] = LOG_FILE THEN [raised |-> "none", file |-> Append(file, args[2])]
    ELSE [raised |-> "none", file |-> file]

----------------------------------------------------------------------------
(* scripts/model_data_prefill.py *)

\* populate_bucket's tasks (lines 24-28): prefix-major
NumTasks == Len(PREFIXES) * Len(MODEL_SIZES_GB)
Tasks ==
    [i \in 1..NumTasks |->
        [prefix |-> PREFIXES[((i - 1) \div Len(MODEL_SIZES_GB)) + 1],
         size   |-> MODEL_SIZES_GB[((i - 1) % Len(MODEL_SIZES_GB)) + 1]]]

\* a generate_file that names the object by its size alone, the prefix dropped
generate_file_name_flat(prefix, size) == FILE_NAME_TEMPLATE(size)

\* generate_file's object key (line 10)
generate_file_name(prefix, size) == prefix \o <<"/">> \o FILE_NAME_TEMPLATE(size)

\* populate_bucket's default for `workers`
DefaultWorkers == 4

\* ThreadPoolExecutor(max_workers=w): `max_workers <= 0` raises TypeError for a
\* list and ValueError for a number that is not positive
ThreadPoolExecutor(w) ==
    IF w.kind = "list" THEN "TypeError"
    ELSE IF w.n <= 0 THEN "ValueError"
    ELSE "none"

----------------------------------------------------------------------------
(* bench/model_loading.py: run_benchmark *)

\* run_benchmark's filename (line 19); os.path.join(mount_path, filename) is
\* this name directly under the mount point, that is the object key of the
\* same text in the mounted bucket
run_benchmark_filename(size_gb) ==
    <<"m", "o", "d", "e", "l", "_">> \o NatStr(size_gb) \o <<"g", "b", ".", "b", "i", "n">>

PollTimeout == 30

\* os.path.exists(file_path): the mount shows the bucket once it is up; until
\* then, and when rclone gave up, MOUNT_PATH is the local directory
Exists(size_gb) ==
    LET f == run_benchmark_filename(size_gb)
    IN  IF mount = "up" THEN bucket \in DOMAIN store /\ f \in store[bucket]
        ELSE f \in localFiles

\* the files of the cases, as they may lie in the local directory
CaseFiles == {run_benchmark_filename(MODEL_SIZES_GB[i]) : i \in 1..Len(MODEL_SIZES_GB)}

----------------------------------------------------------------------------
(* Initial states *)

None == [set |-> FALSE]

\* scripts.dataset_prefill not running
NoDataset ==
    [NUM_FILES |-> 0, SHARDS |-> 0, s |-> 0, i |-> 0, data_buffer |-> <<>>,
     objects |-> {}]

Idle ==
    /\ options = None
    /\ exc = "none" /\ bodyError = "none" /\ exitError = "none"
    /\ store = [b \in {} |-> {}]
    /\ bucket = 0
    /\ calls = <<>>
    /\ localFiles = {}
    /\ workers = [kind |-> "none", n |-> 0]
    /\ task = [i \in 1..NumTasks |-> "none"]
    /\ raisedBy = 0
    /\ mountProc = "unbound"
    /\ mount = "none"
    /\ case = 0 /\ timeout = 0 /\ polls = 0
    /\ result = None
    /\ outcome = <<>>
    /\ logFile = <<>>
    /\ steps = <<>>
    /\ reply = "none"
    /\ ds = NoDataset

NoOverrides == [f \in Fields |-> Absent]

\* the overrides a run of main is started with
EnvMain ==
    {[NoOverrides EXCEPT !["transfers"] = v] :
        v \in {Absent, Given(<<"a", "b", "c">>)}}

Init ==
    /\ env \in EnvMain
    /\ binding \in Bindings
    /\ entry = "main"
    /\ pc = "from_env"
    /\ Idle

----------------------------------------------------------------------------
(* bench/model_loading.py: main *)

\* line 67
FromEnv ==
    /\ pc = "from_env"
    /\ LET r == from_env(env)
       IN  IF r.raised # "none"
           THEN /\ exitError' = r.raised
                /\ pc' = "exit"
                /\ UNCHANGED options
           ELSE /\ options' = r.opts
                /\ pc' = "create"
                /\ UNCHANGED exitError
    /\ UNCHANGED <<entry, reply, ds>>
    /\ UNCHANGED <<env, binding, exc, bodyError, store, bucket, calls, localFiles,
                   workers, task, raisedBy, mountProc, mount, case, timeout,
                   polls, result, outcome, logFile, steps>>

\* line 68, in the module as written: the name manage_bucket is not defined
CreateUnbound ==
    /\ pc = "create"
    /\ binding = "unbound"
    /\ exitError' = "NameError"
    /\ pc' = "exit"
    /\ UNCHANGED <<entry, reply, ds>>
    /\ UNCHANGED <<env, binding, options, exc, bodyError, store, bucket, calls,
                   localFiles, workers, task, raisedBy, mountProc, mount, case,
                   timeout, polls, result, outcome, logFile, steps>>

\* line 68
Create ==
    /\ pc = "create"
    /\ binding # "unbound"
    /\ \E ok \in BOOLEAN :
        LET r == manage_bucket("create", 0, store, FreshName(calls), ok)
        IN  /\ calls' = Append(calls, Call("create", r.ret, r.raised, store))
            /\ store' = r.st
            /\ IF r.raised # "none"
               THEN /\ exitError' = r.raised
                    /\ pc' = "exit"
                    /\ UNCHANGED bucket
               ELSE /\ bucket' = r.ret
                    /\ pc' = "makedirs"
                    /\ UNCHANGED exitError
    /\ UNCHANGED <<entry, reply, ds>>
    /\ UNCHANGED <<env, binding, options, exc, bodyError, localFiles, workers,
                   task, raisedBy, mountProc, mount, case, timeout, polls,
                   result, outcome, logFile, steps>>

\* line 69: os.makedirs(MOUNT_PATH, exist_ok=True), before the try
MakeDirs ==
    /\ pc = "makedirs"
    /\ \E ok \in BOOLEAN :
        IF ok THEN pc' = "populate" /\ UNCHANGED exitError
        ELSE pc' = "exit" /\ exitError' = "OSError"
    /\ UNCHANGED <<entry, reply, ds>>
    /\ UNCHANGED <<env, binding, options, exc, bodyError, store, bucket, calls,
                   localFiles, workers, task, raisedBy, mountProc, mount, case,
                   timeout, polls, result, outcome, logFile, steps>>

----------------------------------------------------------------------------
(* scripts/model_data_prefill.py: populate_bucket, called from main line 73 *)

\* the `workers` that main's call populate_bucket(bucket, MODEL_SIZES_GB) hands
\* to the pool
WorkersOfMain ==
    IF binding = "repo" THEN [kind |-> "list", n |-> 0]
    ELSE [kind |-> "int", n |-> DefaultWorkers]

\* the `workers` of the call that is running: main's, or args.workers, which
\* scripts.model_data_prefill's main passes (line 53)
WorkersOf == IF entry = "main" THEN WorkersOfMain ELSE workers

\* populate_bucket left by the exception e: into main's finally, or out of
\* scripts.model_data_prefill's main, which has no handler
Raise(e) ==
    IF entry = "main"
    THEN /\ exc' = e
         /\ bodyError' = e
         /\ pc' = "umount"
         /\ UNCHANGED exitError
    ELSE /\ exitError' = e
         /\ pc' = "exit"
         /\ UNCHANGED <<exc, bodyError>>

Finished(tk, i) == tk[i] \in {"done", "failed"}

\* a populate_bucket that drops line 33: no result() is asked for, none raises
FutureNeverRaises(tk, i) == FALSE

\* future.result() (line 33) raises what the task raised
FutureRaises(tk, i) == tk[i] = "failed"

\* a populate_bucket that leaves after the first completed future, without
\* waiting for the pool (shutdown(wait=False))
JoinedAfterFirst(tk) == \E i \in 1..NumTasks : Finished(tk, i)

\* a pool whose exit drops the tasks still queued and waits for the running
\* ones only (shutdown(wait=True, cancel_futures=True))
JoinedCancelling(tk) == \A i \in 1..NumTasks : tk[i] # "running"

\* the as_completed loop has been through every future and the with block's
\* exit (shutdown(wait=True)) has joined the pool
Joined(tk) == \A i \in 1..NumTasks : Finished(tk, i)

Running(tk) == {i \in 1..NumTasks : tk[i] = "running"}

\* lines 20-31: the pool is built and every task submitted
PopulateEnter ==
    /\ pc = "populate"
    /\ workers' = WorkersOf
    /\ LET e == ThreadPoolExecutor(WorkersOf)
       IN  IF e # "none"
           THEN /\ Raise(e)
                /\ UNCHANGED task
           ELSE /\ task' = [i \in 1..NumTasks |-> "queued"]
                /\ pc' = "as_completed"
                /\ UNCHANGED <<exc, bodyError, exitError>>
    /\ UNCHANGED <<entry, reply, ds>>
    /\ UNCHANGED <<env, binding, options, store, bucket, calls,
                   localFiles, raisedBy, mountProc, mount, case, timeout, polls,
                   result, outcome, logFile, steps>>

\* a pool thread takes the oldest queued task
TaskStart(i) ==
    /\ task[i] = "queued"
    /\ \A j \in 1..(i - 1) : task[j] # "queued"
    /\ Cardinality(Running(task)) < workers.n
    /\ task' = [task EXCEPT ![i] = "running"]
    /\ UNCHANGED <<entry, reply, ds>>
    /\ UNCHANGED <<env, binding, pc, options, exc, bodyError, exitError, store,
                   bucket, calls, localFiles, workers, raisedBy, mountProc,
                   mount, case, timeout, polls, result, outcome, logFile, steps>>

\* rclone test makefile: the object is written if the bucket is there and the
\* provider accepts
RcloneMakefile(st, name, key, ok) ==
    IF name \notin DOMAIN st \/ ~ok THEN [code |-> 1, st |-> st]
    ELSE [code |-> 0, st |-> [st EXCEPT ![name] = @ \cup {key}]]

\* generate_file (lines 8-17) run to its end by a pool thread
TaskFinish(i) ==
    /\ task[i] = "running"
    /\ \E ok \in BOOLEAN :
        LET r == RcloneMakefile(store, bucket,
                                generate_file_name(Tasks[i].prefix, Tasks[i].size), ok)
        IN  /\ store' = r.st
            /\ task' = [task EXCEPT
                          ![i] = IF CheckTrue(r.code) = "none" THEN "done" ELSE "failed"]
    /\ UNCHANGED <<entry, reply, ds>>
    /\ UNCHANGED <<env, binding, pc, options, exc, bodyError, exitError, bucket,
                   calls, localFiles, workers, raisedBy, mountProc, mount, case,
                   timeout, polls, result, outcome, logFile, steps>>

\* lines 32-33: as_completed yields a finished future whose result() raises
AsCompletedRaise(i) ==
    /\ pc = "as_completed"
    /\ Finished(task, i)
    /\ FutureRaises(task, i)
    /\ raisedBy' = i
    /\ pc' = "pool_exit"
    /\ UNCHANGED <<entry, reply, ds>>
    /\ UNCHANGED <<env, binding, options, exc, bodyError, exitError, store,
                   bucket, calls, localFiles, workers, task, mountProc, mount,
                   case, timeout, polls, result, outcome, logFile, steps>>

\* line 30's with block left by the exception: the pool is joined, then the
\* exception reaches main
PoolExitRaise ==
    /\ pc = "pool_exit"
    /\ Joined(task)
    /\ Raise("CalledProcessError")
    /\ UNCHANGED <<entry, reply, ds>>
    /\ UNCHANGED <<env, binding, options, store, bucket, calls,
                   localFiles, workers, task, raisedBy, mountProc, mount, case,
                   timeout, polls, result, outcome, logFile, steps>>

\* lines 30-33 left normally: no result() raised
PopulateReturn ==
    /\ pc = "as_completed"
    /\ Joined(task)
    /\ \A i \in 1..NumTasks : Finished(task, i) => ~FutureRaises(task, i)
    /\ pc' = IF entry = "main" THEN "mount" ELSE "exit"
    /\ UNCHANGED <<entry, reply, ds>>
    /\ UNCHANGED <<env, binding, options, exc, bodyError, exitError, store,
                   bucket, calls, localFiles, workers, task, raisedBy, mountProc,
                   mount, case, timeout, polls, result, outcome, logFile, steps>>

----------------------------------------------------------------------------
(* bench/model_loading.py: main, lines 76-89, and run_benchmark *)

\* lines 76-81: subprocess.Popen(mount_cmd); what lies in the local directory
\* MOUNT_PATH is first looked at after this
Mount ==
    /\ pc = "mount"
    /\ \E ok \in BOOLEAN, files \in SUBSET CaseFiles :
        IF ok
        THEN /\ mountProc' = "bound"
             /\ mount' = "starting"
             /\ localFiles' = files
             /\ case' = 1
             /\ pc' = "loop"
             /\ UNCHANGED <<exc, bodyError>>
        ELSE /\ exc' = "OSError"
             /\ bodyError' = "OSError"
             /\ pc' = "umount"
             /\ UNCHANGED <<mountProc, mount, localFiles, case>>
    /\ UNCHANGED <<entry, reply, ds>>
    /\ UNCHANGED <<env, binding, options, exitError, store, bucket, calls,
                   workers, task, raisedBy, timeout, polls, result, outcome,
                   logFile, steps>>

\* the rclone process gets the mount up
MountUp ==
    /\ mount = "starting"
    /\ mount' = "up"
    /\ UNCHANGED <<entry, reply, ds>>
    /\ UNCHANGED <<env, binding, pc, options, exc, bodyError, exitError, store,
                   bucket, calls, localFiles, workers, task, raisedBy, mountProc,
                   case, timeout, polls, result, outcome, logFile, steps>>

\* the rclone process gives up
MountDown ==
    /\ mount = "starting"
    /\ mount' = "down"
    /\ UNCHANGED <<entry, reply, ds>>
    /\ UNCHANGED <<env, binding, pc, options, exc, bodyError, exitError, store,
                   bucket, calls, localFiles, workers, task, raisedBy, mountProc,
                   case, timeout, polls, result, outcome, logFile, steps>>

\* a loop that runs a failed case again before it goes on
LoopRetry ==
    /\ pc = "loop"
    /\ IF case <= Len(MODEL_SIZES_GB)
       THEN /\ timeout' = PollTimeout
            /\ polls' = 0
            /\ pc' = "poll"
            /\ case' = IF outcome # <<>> /\ outcome[Len(outcome)][2] = "failed"
                       THEN case - 1 ELSE case
       ELSE /\ pc' = "umount"
            /\ UNCHANGED <<timeout, polls, case>>
    /\ UNCHANGED <<entry, reply, ds>>
    /\ UNCHANGED <<env, binding, options, exc, bodyError, exitError, store,
                   bucket, calls, localFiles, workers, task, raisedBy, mountProc,
                   mount, result, outcome, logFile, steps>>

\* line 84: the for loop takes the next size, or is over
Loop ==
    /\ pc = "loop"
    /\ IF case <= Len(MODEL_SIZES_GB)
       THEN /\ timeout' = PollTimeout
            /\ polls' = 0
            /\ pc' = "poll"
       ELSE /\ pc' = "umount"
            /\ UNCHANGED <<timeout, polls>>
    /\ UNCHANGED <<entry, reply, ds>>
    /\ UNCHANGED <<env, binding, options, exc, bodyError, exitError, store,
                   bucket, calls, localFiles, workers, task, raisedBy, mountProc,
                   mount, case, result, outcome, logFile, steps>>

\* a poll loop without line 28: the countdown never moves
PollForever ==
    /\ pc = "poll"
    /\ polls' = polls + 1
    /\ IF ~Exists(MODEL_SIZES_GB[case]) /\ timeout > 0
       THEN pc' = "poll"
       ELSE pc' = "read"
    /\ UNCHANGED <<entry, reply, ds>>
    /\ UNCHANGED <<env, binding, options, exc, bodyError, exitError, store,
                   bucket, calls, localFiles, workers, task, raisedBy, mountProc,
                   mount, case, timeout, result, outcome, logFile, steps>>

\* lines 26-28: one evaluation of the while condition, and the body if it holds
Poll ==
    /\ pc = "poll"
    /\ polls' = polls + 1
    /\ IF ~Exists(MODEL_SIZES_GB[case]) /\ timeout > 0
       THEN timeout' = timeout - 1 /\ pc' = "poll"
       ELSE pc' = "read" /\ UNCHANGED timeout
    /\ UNCHANGED <<entry, reply, ds>>
    /\ UNCHANGED <<env, binding, options, exc, bodyError, exitError, store,
                   bucket, calls, localFiles, workers, task, raisedBy, mountProc,
                   mount, case, result, outcome, logFile, steps>>

\* lines 30-62: open and read (None when either raises), the stats, the kpis.
\* Line 50 is outside run_benchmark's try: what get_rclone_stats raises leaves
\* run_benchmark and reaches main's finally.
Read ==
    /\ pc = "read"
    /\ \E readOk \in BOOLEAN, r \in Replies :
        IF Exists(MODEL_SIZES_GB[case]) /\ readOk
        THEN LET vfs_stats == get_rclone_stats(r)
             IN  /\ reply' = r
                 /\ IF vfs_stats.raised # "none"
                    THEN /\ exc' = vfs_stats.raised
                         /\ bodyError' = vfs_stats.raised
                         /\ pc' = "umount"
                         /\ UNCHANGED result
                    ELSE /\ result' = [set |-> TRUE,
                                       model_size_gb |-> MODEL_SIZES_GB[case],
                                       vfs_stats |-> vfs_stats.ret,
                                       config |-> None]
                         /\ pc' = "record"
                         /\ UNCHANGED <<exc, bodyError>>
        ELSE /\ reply' = "none"
             /\ result' = None
             /\ pc' = "record"
             /\ UNCHANGED <<exc, bodyError>>
    /\ UNCHANGED <<entry, ds>>
    /\ UNCHANGED <<env, binding, options, exitError, store,
                   bucket, calls, localFiles, workers, task, raisedBy, mountProc,
                   mount, case, timeout, polls, outcome, logFile, steps>>

\* lines 86-89: `if result:` and the logging of it
Record ==
    /\ pc = "record"
    /\ IF ~result.set
       THEN /\ outcome' = Append(outcome, <<MODEL_SIZES_GB[case], "failed">>)
            /\ case' = case + 1
            /\ pc' = "loop"
            /\ UNCHANGED <<exc, bodyError, logFile>>
       ELSE LET r == log_to_jsonl(<<[result EXCEPT !.config = options]>>, logFile)
            IN  /\ outcome' = Append(outcome, <<MODEL_SIZES_GB[case], "completed">>)
                /\ logFile' = r.file
                /\ IF r.raised # "none"
                   THEN /\ exc' = r.raised
                        /\ bodyError' = r.raised
                        /\ pc' = "umount"
                        /\ UNCHANGED case
                   ELSE /\ case' = case + 1
                        /\ pc' = "loop"
                        /\ UNCHANGED <<exc, bodyError>>
    /\ UNCHANGED <<entry, reply, ds>>
    /\ UNCHANGED <<env, binding, options, exitError, store, bucket, calls,
                   localFiles, workers, task, raisedBy, mountProc, mount,
                   timeout, polls, result, steps>>

----------------------------------------------------------------------------
(* bench/model_loading.py: main's finally, lines 91-98 *)

\* line 94: subprocess.run(["umount", "-l", MOUNT_PATH]); without check the exit
\* code is dropped, but run itself raises OSError when umount cannot be executed
Umount ==
    /\ pc = "umount"
    /\ steps' = Append(steps, "umount")
    /\ \E o \in {"ok", "nonzero", "oserror"} :
        IF o = "oserror"
        THEN exitError' = "OSError" /\ pc' = "exit"
        ELSE /\ CheckFalse(IF o = "ok" THEN 0 ELSE 1) = "none"
             /\ pc' = "terminate"
             /\ UNCHANGED exitError
    /\ UNCHANGED <<entry, reply, ds>>
    /\ UNCHANGED <<env, binding, options, exc, bodyError, store, bucket, calls,
                   localFiles, workers, task, raisedBy, mountProc, mount, case,
                   timeout, polls, result, outcome, logFile>>

\* lines 95-96
Terminate ==
    /\ pc = "terminate"
    /\ IF mountProc = "bound"
       THEN steps' = Append(steps, "terminate") /\ mount' = "down"
       ELSE UNCHANGED <<steps, mount>>
    /\ pc' = "delete"
    /\ UNCHANGED <<entry, reply, ds>>
    /\ UNCHANGED <<env, binding, options, exc, bodyError, exitError, store,
                   bucket, calls, localFiles, workers, task, raisedBy, mountProc,
                   case, timeout, polls, result, outcome, logFile>>

\* line 97, then the exception of the try body (if any) goes on
Delete ==
    /\ pc = "delete"
    /\ steps' = Append(steps, "delete")
    /\ \E ok \in BOOLEAN :
        LET r == manage_bucket("delete", bucket, store, 0, ok)
        IN  /\ calls' = Append(calls, Call("delete", bucket, r.raised, store))
            /\ store' = r.st
            /\ exitError' = IF r.raised # "none" THEN r.raised ELSE exc
    /\ pc' = "exit"
    /\ UNCHANGED <<entry, reply, ds>>
    /\ UNCHANGED <<env, binding, options, exc, bodyError, bucket, localFiles,
                   workers, task, raisedBy, mountProc, mount, case, timeout,
                   polls, result, outcome, logFile>>

Next ==
    \/ FromEnv
    \/ CreateUnbound
    \/ Create
    \/ MakeDirs
    \/ PopulateEnter
    \/ \E i \in 1..NumTasks : TaskStart(i)
    \/ \E i \in 1..NumTasks : TaskFinish(i)
    \/ \E i \in 1..NumTasks : AsCompletedRaise(i)
    \/ PoolExitRaise
    \/ PopulateReturn
    \/ Mount
    \/ MountUp
    \/ MountDown
    \/ Loop
    \/ Poll
    \/ Read
    \/ Record
    \/ Umount
    \/ Terminate
    \/ Delete

Spec == Init /\ [][Next]_vars

----------------------------------------------------------------------------
(* RCloneOptions.from_env on its own, over a wider set of overrides *)

IntOverrides ==
    {Absent, Given(<<"8">>), Given(<<" ", "2">>), Given(<<"0">>),
     Given(<<"-", "3">>), Given(<<"a", "b", "c">>), Given(<<>>)}

BoolOverrides ==
    {Absent, Given(<<"Y", "E", "S">>), Given(<<"n", "o">>),
     Given(<<"m", "a", "y", "b", "e">>)}

EnvAll ==
    {[f \in Fields |->
        IF f = "transfers" THEN a
        ELSE IF f = "multi_thread_streams" THEN b
        ELSE IF f = "vfs_read_chunk_streams" THEN c
        ELSE IF f = "fast_list" THEN d
        ELSE Absent] :
        a \in IntOverrides, b \in IntOverrides, c \in IntOverrides,
        d \in BoolOverrides}

InitEnv ==
    /\ env \in EnvAll
    /\ binding = "unbound"
    /\ entry = "main"
    /\ pc = "from_env"
    /\ Idle

NextEnv == FromEnv

SpecEnv == InitEnv /\ [][NextEnv]_vars

----------------------------------------------------------------------------
(* bench_utils.manage_bucket called directly, MaxCalls times *)

InitBucket ==
    /\ env = NoOverrides
    /\ binding = "repo"
    /\ entry = "main"
    /\ pc = "caller"
    /\ Idle

\* manage_bucket("create")
CallerCreate ==
    /\ pc = "caller"
    /\ Len(calls) < MaxCalls
    /\ \E ok \in BOOLEAN :
        LET r == manage_bucket("create", 0, store, FreshName(calls), ok)
        IN  /\ calls' = Append(calls, Call("create", r.ret, r.raised, store))
            /\ store' = r.st
    /\ UNCHANGED <<entry, reply, ds>>
    /\ UNCHANGED <<env, binding, pc, options, exc, bodyError, exitError, bucket,
                   localFiles, workers, task, raisedBy, mountProc, mount, case,
                   timeout, polls, result, outcome, logFile, steps>>

\* manage_bucket("delete", name)
CallerDelete ==
    /\ pc = "caller"
    /\ Len(calls) < MaxCalls
    /\ \E name \in Names, ok \in BOOLEAN :
        LET r == manage_bucket("delete", name, store, 0, ok)
        IN  /\ calls' = Append(calls, Call("delete", name, r.raised, store))
            /\ store' = r.st
    /\ UNCHANGED <<entry, reply, ds>>
    /\ UNCHANGED <<env, binding, pc, options, exc, bodyError, exitError, bucket,
                   localFiles, workers, task, raisedBy, mountProc, mount, case,
                   timeout, polls, result, outcome, logFile, steps>>

NextBucket == CallerCreate \/ CallerDelete

SpecBucket == InitBucket /\ [][NextBucket]_vars

----------------------------------------------------------------------------
(* scripts/model_data_prefill.py run as a script: main, lines 36-53 *)

MaxWorkers == 2

\* what --workers may carry: argparse's type=int takes any integer
WorkersArgs == 0..MaxWorkers

\* line 53: populate_bucket(args.bucket, args.workers); --bucket names a bucket
\* that is there or is not
InitPrefill ==
    /\ env = NoOverrides
    /\ binding = "repo"
    /\ entry = "prefill"
    /\ pc = "populate"
    /\ options = None
    /\ exc = "none" /\ bodyError = "none" /\ exitError = "none"
    /\ bucket = 1
    /\ store \in {[b \in {bucket} |-> {}], [b \in {} |-> {}]}
    /\ calls = <<>>
    /\ localFiles = {}
    /\ \E n \in WorkersArgs : workers = [kind |-> "int", n |-> n]
    /\ task = [i \in 1..NumTasks |-> "none"]
    /\ raisedBy = 0
    /\ mountProc = "unbound"
    /\ mount = "none"
    /\ case = 0 /\ timeout = 0 /\ polls = 0
    /\ result = None
    /\ outcome = <<>>
    /\ logFile = <<>>
    /\ steps = <<>>
    /\ reply = "none"
    /\ ds = NoDataset

NextPrefill ==
    \/ PopulateEnter
    \/ \E i \in 1..NumTasks : TaskStart(i)
    \/ \E i \in 1..NumTasks : TaskFinish(i)
    \/ \E i \in 1..NumTasks : AsCompletedRaise(i)
    \/ PoolExitRaise
    \/ PopulateReturn

SpecPrefill == InitPrefill /\ [][NextPrefill]_vars

----------------------------------------------------------------------------
(* scripts/dataset_prefill.py *)

MaxFiles == 5
MaxShards == 3

FILE_SIZE_BYTES == 4096

\* line 43: every 100 files the progress line is printed and the buffer drawn
\* again
ProgressEvery == 100

\* the values NUM_FILES may have: the small ones, and one that reaches line 43
NumFilesValues == (1..MaxFiles) \cup {ProgressEvery + 1}

\* line 12
FILES_PER_SHARD(num_files, shards) == num_files \div shards

\* lines 31-32 and 45: ''.join(random.choices(chars, k=FILE_SIZE_BYTES)); of the
\* random text only its length and one character, repeated, are kept
Chars == {"a", "Z"}
RandomBuffer(c) == [j \in 1..FILE_SIZE_BYTES |-> c]

\* line 16: f"dataset/shard_{shard_index}/d_{file_index}.bin"
DatasetKey(shard_index, file_index) ==
    <<"d", "a", "t", "a", "s", "e", "t", "/", "s", "h", "a", "r", "d", "_">>
    \o NatStr(shard_index) \o <<"/", "d", "_">> \o NatStr(file_index)
    \o <<".", "b", "i", "n">>

\* the shell's echo: its argument, then a newline
Echo(text) == text \o <<"\n">>

\* line 21: echo '{data_buffer}' | rclone rcat {remote_path}; rcat stores what it
\* reads from the pipe
RcatInput(data_buffer) == Echo(data_buffer)

\* generate_small_file_rcat (lines 14-24): the object uploaded, its shard and
\* its size in bytes kept with its key
generate_small_file_rcat(shard_index, file_index, data_buffer) ==
    [key   |-> DatasetKey(shard_index, file_index),
     shard |-> shard_index,
     size  |-> Len(RcatInput(data_buffer))]

InitDataset ==
    /\ env = NoOverrides
    /\ binding = "repo"
    /\ entry = "dataset"
    /\ pc = "ds_start"
    /\ options = None
    /\ exc = "none" /\ bodyError = "none" /\ exitError = "none"
    /\ store = [b \in {} |-> {}]
    /\ bucket = 0
    /\ calls = <<>>
    /\ localFiles = {}
    /\ workers = [kind |-> "none", n |-> 0]
    /\ task = [i \in 1..NumTasks |-> "none"]
    /\ raisedBy = 0
    /\ mountProc = "unbound"
    /\ mount = "none"
    /\ case = 0 /\ timeout = 0 /\ polls = 0
    /\ result = None
    /\ outcome = <<>>
    /\ logFile = <<>>
    /\ steps = <<>>
    /\ reply = "none"
    /\ \E n \in NumFilesValues, sh \in 1..MaxShards :
        ds = [NoDataset EXCEPT !.NUM_FILES = n, !.SHARDS = sh]

DatasetUnchanged ==
    UNCHANGED <<env, binding, options, exc, bodyError, store, bucket, calls,
                localFiles, workers, task, raisedBy, mountProc, mount, case,
                timeout, polls, result, outcome, logFile, steps, entry, reply>>

\* populate_dataset, lines 26-34: the first buffer
DatasetStart ==
    /\ pc = "ds_start"
    /\ \E c \in Chars : ds' = [ds EXCEPT !.data_buffer = RandomBuffer(c), !.s = 0]
    /\ pc' = "ds_shard"
    /\ UNCHANGED exitError
    /\ DatasetUnchanged

\* line 36: for s in range(SHARDS)
ShardLoop ==
    /\ pc = "ds_shard"
    /\ IF ds.s < ds.SHARDS
       THEN /\ ds' = [ds EXCEPT !.i = 0]
            /\ pc' = "ds_file"
       ELSE /\ pc' = "exit"
            /\ UNCHANGED ds
    /\ UNCHANGED exitError
    /\ DatasetUnchanged

\* lines 40-46: for i in range(FILES_PER_SHARD): one upload (check=True: a
\* non-zero exit raises and nothing catches it), then the buffer drawn again
\* after every 100th file of the shard
FileLoop ==
    /\ pc = "ds_file"
    /\ IF ds.i < FILES_PER_SHARD(ds.NUM_FILES, ds.SHARDS)
       THEN \E ok \in BOOLEAN, c \in Chars :
              IF ok
              THEN /\ ds' = [ds EXCEPT
                        !.objects = @ \cup {generate_small_file_rcat(ds.s, ds.i, ds.data_buffer)},
                        !.data_buffer = IF (ds.i + 1) % ProgressEvery = 0
                                        THEN RandomBuffer(c) ELSE @,
                        !.i = @ + 1]
                   /\ UNCHANGED <<pc, exitError>>
              ELSE /\ exitError' = "CalledProcessError"
                   /\ pc' = "exit"
                   /\ UNCHANGED ds
       ELSE /\ ds' = [ds EXCEPT !.s = @ + 1]
            /\ pc' = "ds_shard"
            /\ UNCHANGED exitError
    /\ DatasetUnchanged

NextDataset ==
    \/ DatasetStart
    \/ ShardLoop
    \/ FileLoop

SpecDataset == InitDataset /\ [][NextDataset]_vars

----------------------------------------------------------------------------
(* Properties *)

CleanupPcs == {"umount", "terminate", "delete"}
MeasurePcs == {"mount", "loop", "poll", "read", "record"}

DeleteAttempts == Cardinality({i \in 1..Len(calls) : calls[i].action = "delete"})

Failed(k) == outcome[k][2] = "failed"
Completed(k) == outcome[k][2] = "completed"

C2_DeleteIdempotent ==
    \A i \in 1..Len(calls) :
        (calls[i].action = "delete" /\ ~calls[i].existed) => calls[i].raised = "none"

C9_MalformedOverrideFallsBack ==
    pc # "from_env" =>
        /\ exitError = "none"
        /\ options.set
        /\ \A f \in IntFields :
             (env[f].set /\ ~PyInt(env[f].val).ok) => options.int[f] = DefaultInt(f)

\* C10: every RCloneOptions from_env produces has all numeric fields > 0.
C10_NumericFieldsPositive ==
    options.set => \A f \in IntFields : options.int[f] > 0

\* the small-object population has returned without an error
DatasetDone == entry = "dataset" /\ pc = "exit" /\ exitError = "none"

\* the number of uploaded objects of shard sh
ShardCount(sh) == Cardinality({o \in ds.objects : o.shard = sh})

\* C11: after the small-object population completes without error with
\* NUM_FILES = N and SHARDS = S, exactly N objects have been uploaded and the
\* per-shard counts differ by at most one, for every N and S, N not divisible
\* by S included.
C11_ExactlyNumFilesUploaded ==
    DatasetDone =>
        /\ Cardinality(ds.objects) = ds.NUM_FILES
        /\ \A a, b \in 0..(ds.SHARDS - 1) : ShardCount(a) - ShardCount(b) <= 1

\* C12: every uploaded small object has a length of exactly FILE_SIZE_BYTES: the
\* bytes piped to the upload command are the generated payload and nothing
\* more.
C12_ObjectIsExactlyThePayload ==
    \A o \in ds.objects : o.size = FILE_SIZE_BYTES

\* the object keys of the submitted tasks, by position
TaskKeys == [i \in 1..NumTasks |-> generate_file_name(Tasks[i].prefix, Tasks[i].size)]

\* the object key of the i-th submitted task
TaskKey(i) == TaskKeys[i]

Submitted == {i \in 1..NumTasks : task[i] # "none"}

\* populate_bucket was entered, submitted its tasks and is no longer running
PopulateLeft == Submitted # {} /\ pc \notin {"populate", "as_completed", "pool_exit"}

\* populate_bucket has returned normally and nothing has run since
PopulateReturned ==
    /\ Submitted # {}
    /\ IF entry = "main" THEN pc = "mount" ELSE pc = "exit" /\ exitError = "none"

\* C13: populate_bucket over P prefixes and S sizes submits exactly P x S tasks
\* whose object keys are pairwise distinct; after a successful populate exactly
\* P x S objects exist; no two workers running at the same time write the same
\* key.
C13_DistinctKeysOneObjectEach ==
    /\ pc \in {"as_completed", "pool_exit"} =>
           Cardinality(Submitted) = Len(PREFIXES) * Len(MODEL_SIZES_GB)
    /\ \A i, j \in Submitted : i # j => TaskKey(i) # TaskKey(j)
    /\ PopulateReturned => Cardinality(store[bucket]) = Len(PREFIXES) * Len(MODEL_SIZES_GB)
    /\ \A i, j \in Running(task) : i # j => TaskKey(i) # TaskKey(j)

\* two workers ran side by side and the populate returned with all its objects
C13_Witness ==
    /\ entry = "prefill"
    /\ workers.n >= 2
    /\ PopulateReturned
    /\ Cardinality(store[bucket]) = NumPrefixes * NumSizes

TelemetryErrors == {"ConnectionError", "JSONDecodeError"}

StepRank(st) ==
    CASE st = "umount" -> 1
      [] st = "terminate" -> 2
      [] st = "delete" -> 3

PopulateRaised ==
    /\ PopulateLeft
    /\ IF entry = "main" THEN bodyError = "CalledProcessError"
       ELSE exitError = "CalledProcessError"

\* C17: populate_bucket is a join barrier: it returns, normally or by raising,
\* only after every submitted task has finished; when at least one task failed
\* the error it raises is the error of a failed task.
C17_JoinBarrier ==
    PopulateLeft =>
        /\ \A i \in Submitted : Finished(task, i)
        /\ PopulateRaised <=> \E i \in Submitted : task[i] = "failed"
        /\ PopulateRaised <=> raisedBy # 0
        /\ raisedBy # 0 => task[raisedBy] = "failed"

\* the populate was left by the error of a failed task while others succeeded
C17_Witness ==
    /\ entry = "prefill"
    /\ PopulateRaised
    /\ raisedBy # 0
    /\ \E i \in Submitted : task[i] = "done"

\* C19: a failed upload does not cancel the rest: every other submitted task is
\* still started and run to its end before the error leaves populate_bucket,
\* and the objects of the tasks queued behind the failing one are still
\* written.
C19_FailureDoesNotCancel ==
    PopulateRaised =>
        \A i \in Submitted :
            /\ task[i] \notin {"queued", "running"}
            /\ (task[i] = "done" /\ bucket \in DOMAIN store) =>
                   TaskKey(i) \in store[bucket]

\* one worker: the first task failed, every task queued behind it ran and
\* wrote its object before the error left
C19_Witness ==
    /\ entry = "prefill"
    /\ workers.n = 1
    /\ PopulateRaised
    /\ raisedBy = 1
    /\ \A i \in 2..NumTasks : task[i] = "done" /\ TaskKey(i) \in store[bucket]

============================================================================
